---- MODULE Spec2Model ----
(***************************************************************************)
(* TVShowManager (StreamingCommunity/Util/table.py): the paginated table   *)
(* browser.  The state is the manager's fields, the locals of run() and of *)
(* run_back_command(), the position of the control flow, and the part of   *)
(* the environment the code reads or writes: the call stack, the file      *)
(* system markers and sys.path.                                            *)
(*                                                                         *)
(* Strings that the code inspects (the prompt's answer) are sequences of   *)
(* one-character strings, so that lower() is computed character by         *)
(* character.  A path is the sequence of its components from the           *)
(* filesystem root; << >> is the root itself.                              *)
(***************************************************************************)
EXTENDS Integers, Sequences, FiniteSets, TLC

(***************************************************************************)
(* Bounds of the model.                                                    *)
(***************************************************************************)
MaxStep == 2        \* largest page size given to set_slice_end
MaxTotal == 5       \* largest number of records in tv_shows
MaxInt == 1         \* largest max_int_input given to run()
MaxRuns == 2        \* largest number of calls of run() on one manager
MaxRows == 2        \* largest record set given to the renderer on its own

(***************************************************************************)
(* Program constants.                                                      *)
(***************************************************************************)
DefaultSliceEnd == 5

VARIABLES
    pc,               \* position of the control flow
    tv_shows,         \* self.tv_shows
    slice_start,      \* self.slice_start
    slice_end,        \* self.slice_end
    step,             \* self.step
    column_info,      \* self.column_info, an ordered mapping: sequence of <<name, color>>
    force_int_input,  \* run(): parameter
    max_int_input,    \* run(): parameter
    total_items,      \* run(): local
    key,              \* run(): local, what Prompt.ask returned
    last_command,     \* run(): local, the value run() returns
    research_func,    \* run(): local; << >> is None, <<frame>> a frame
    table,            \* the rows display_data printed last
    call_stack,       \* what get_call_stack() returns inside run()
    fs_markers,       \* the directories that contain an entry 'StreamingCommunity'
    sys_path,         \* sys.path
    site_name,        \* run_back_command(): local
    current_path,     \* run_back_command(): local
    project_root,     \* run_back_command(): local, [bound, path]
    search_func,      \* run_back_command(): local, TRUE once line 121 has bound it
    exc,              \* the exception in flight or last caught, "none" if none
    reported,         \* the error the except clause printed in the current delegation
    search_calls,     \* arguments of the calls of search() made by the current delegation
    at_back,          \* <<slice_start, slice_end, step>> when the current delegation began
    last_moves,       \* the kinds of the last two page moves of this run, oldest first
    path_at_back,     \* sys.path when the current delegation began
    seen,             \* positions of the records rendered since run() began, last wrapped
                      \* or last delegated to search
    runs              \* number of calls of run() so far

vars == <<pc, tv_shows, slice_start, slice_end, step, column_info,
          force_int_input, max_int_input, total_items, key, last_command,
          research_func, table, seen, call_stack, fs_markers, sys_path,
          site_name, current_path, project_root, search_func, exc, reported,
          search_calls, at_back, last_moves, path_at_back, seen, runs>>

cfgVars == <<tv_shows, slice_start, slice_end, step, column_info>>
runArgs == <<force_int_input, max_int_input, total_items, runs>>
envVars == <<call_stack, fs_markers>>
backVars == <<site_name, current_path, project_root, search_func, search_calls, at_back,
              path_at_back>>

(***************************************************************************)
(* Strings.                                                                *)
(***************************************************************************)
UpperChars == <<"A","B","C","D","E","F","G","H","I","J","K","L","M",
                "N","O","P","Q","R","S","T","U","V","W","X","Y","Z">>
LowerChars == <<"a","b","c","d","e","f","g","h","i","j","k","l","m",
                "n","o","p","q","r","s","t","u","v","w","x","y","z">>

LowerChar(c) ==
    IF \E i \in DOMAIN UpperChars : UpperChars[i] = c
    THEN LowerChars[CHOOSE i \in DOMAIN UpperChars : UpperChars[i] = c]
    ELSE c

\* str.lower()
Lower(s) == [i \in DOMAIN s |-> LowerChar(s[i])]

DigitChars == <<"0","1","2","3","4","5","6","7","8","9">>

RECURSIVE Str(_)
\* str(i) for i >= 0
Str(i) == IF i < 10 THEN <<DigitChars[i + 1]>>
          ELSE Str(i \div 10) \o <<DigitChars[(i % 10) + 1]>>

KEmpty == << >>
Kq == <<"q">>
Kback == <<"b","a","c","k">>

\* what the user may type at the free-form prompt
FreeKeys == { KEmpty, Kq, <<"Q">>, Kback, <<"B","A","C","K">>, <<"B","a","c","k">>,
              <<"0">>, <<"*">>, <<"1","-","2">>, <<"q","u","i","t">> }

Choices_Inclusive(n) == { Str(i) : i \in 0..n } \cup { Kq, KEmpty, Kback }

\* the choices list of the strict prompt
Choices(n) == { Str(i) : i \in 0..(n - 1) } \cup { Kq, KEmpty, Kback }

\* what Prompt.ask can return
PromptAsk(force, n) == IF force THEN Choices(n) ELSE FreeKeys

(***************************************************************************)
(* Paths.                                                                  *)
(***************************************************************************)
\* os.path.dirname: the parent; the parent of the root is the root
Dirname(p) == IF p = << >> THEN << >> ELSE SubSeq(p, 1, Len(p) - 1)

\* os.path.basename
Basename(p) == IF p = << >> THEN "" ELSE p[Len(p)]

\* os.path.exists(os.path.join(p, 'StreamingCommunity'))
HasMarker(p) == p \in fs_markers

ProjectDir == <<"proj">>
SiteDir == <<"proj", "StreamingCommunity", "Api", "Site", "sc">>
StrayDir == <<"tmp", "site">>

\* sys.path.insert(0, p)
PathInsert(sp, p) == <<p>> \o sp

\* list.remove(p): drops the first occurrence
PathRemove(sp, p) ==
    LET i == CHOOSE k \in DOMAIN sp : sp[k] = p /\ \A j \in 1..(k - 1) : sp[j] # p
    IN  SubSeq(sp, 1, i - 1) \o SubSeq(sp, i + 1, Len(sp))

InPath(sp, p) == \E k \in DOMAIN sp : sp[k] = p

(***************************************************************************)
(* The call stack.                                                         *)
(***************************************************************************)
Frame(f, s, hasFolder, folder) ==
    [function |-> f, script |-> s, has_folder |-> hasFolder, folder |-> folder]

CallStacks ==
    { <<Frame("main", "run.py", TRUE, ProjectDir)>>,
      <<Frame("search", "__init__.py", TRUE, SiteDir),
        Frame("main", "run.py", TRUE, ProjectDir)>>,
      <<Frame("search", "site.py", TRUE, SiteDir),
        Frame("search", "__init__.py", TRUE, StrayDir)>>,
      <<Frame("search", "__init__.py", FALSE, << >>)>> }

RECURSIVE ScanStack(_, _)
\* the for loop over get_call_stack(): the last matching frame wins
ScanStack(stack, found) ==
    IF stack = << >> THEN found
    ELSE ScanStack(Tail(stack),
                   IF Head(stack).function = "search" /\ Head(stack).script = "__init__.py"
                   THEN <<Head(stack)>> ELSE found)

ResearchFunc(stack) == ScanStack(stack, << >>)

Truthy(rf) == rf # << >>

(***************************************************************************)
(* Records and the renderer.                                               *)
(***************************************************************************)
\* the record the owning pipeline appends at position i; every third lacks a Name
Show(i) == IF i % 3 = 0 THEN [Index |-> Str(i)]
           ELSE [Index |-> Str(i), Name |-> <<"n">> \o Str(i)]

Schemas == { <<<<"Index", "red">>, <<"Name", "">>>>,
             <<<<"Name", "cyan">>, <<"Type", "">>, <<"Index", "">>>> }

Get_None(entry, col) == IF col \in DOMAIN entry THEN entry[col] ELSE <<"N", "o", "n", "e">>

\* entry.get(col_name, '')
Get(entry, col) == IF col \in DOMAIN entry THEN entry[col] ELSE << >>

\* tv_shows[a:b] for a, b >= 0
Slice(s, a, b) ==
    LET hi == IF b < Len(s) THEN b ELSE Len(s)
    IN  IF a >= hi THEN << >> ELSE SubSeq(s, a + 1, hi)

\* the positions in s, counted from 1, of the records of s[a:b]
SlicePositions(s, a, b) == [i \in 1..Len(Slice(s, a, b)) |-> a + i]

\* display_data: one row per entry, one cell per column
DisplayData(cols, data_slice) ==
    [r \in DOMAIN data_slice |->
        [c \in DOMAIN cols |-> Get(data_slice[r], cols[c][1])]]

NoRoot == [bound |-> FALSE, path |-> << >>]

(***************************************************************************)
(* Initial state: after __init__, in some environment.                     *)
(***************************************************************************)
Init ==
    /\ pc = "config"
    /\ tv_shows = << >>
    /\ slice_start = 0
    /\ slice_end = DefaultSliceEnd
    /\ step = DefaultSliceEnd
    /\ column_info = << >>
    /\ force_int_input = FALSE
    /\ max_int_input = 0
    /\ total_items = 0
    /\ key = KEmpty
    /\ last_command = KEmpty
    /\ research_func = << >>
    /\ table = << >>
    /\ call_stack \in CallStacks
    /\ fs_markers \in { {ProjectDir}, {} }
    /\ sys_path \in { <<<<"usr", "lib">>>>, <<ProjectDir, <<"usr", "lib">>>> }
    /\ site_name = ""
    /\ current_path = << >>
    /\ project_root = NoRoot
    /\ search_func = FALSE
    /\ exc = "none"
    /\ reported = "none"
    /\ search_calls = << >>
    /\ at_back = <<0, 0, 0>>
    /\ last_moves = <<"none", "none">>
    /\ path_at_back = << >>
    /\ seen = << >>
    /\ runs = 0

(***************************************************************************)
(* Configuration, before run().                                            *)
(***************************************************************************)
set_slice_end_EndOnly(new_slice) ==
    /\ pc = "config"
    /\ slice_end' = new_slice
    /\ UNCHANGED <<pc, tv_shows, slice_start, step, column_info, runArgs, key, last_command,
                   research_func, table, seen, envVars, last_moves, sys_path, backVars, exc,
                   reported>>

set_slice_end(new_slice) ==
    /\ pc = "config"
    /\ slice_end' = new_slice
    /\ step' = new_slice
    /\ UNCHANGED <<pc, tv_shows, slice_start, column_info, runArgs, key, last_command,
                   research_func, table, seen, envVars, last_moves, sys_path, backVars, exc, reported>>

add_column(schema) ==
    /\ pc = "config"
    /\ column_info' = schema
    /\ UNCHANGED <<pc, tv_shows, slice_start, slice_end, step, runArgs, key, last_command,
                   research_func, table, seen, envVars, last_moves, sys_path, backVars, exc, reported>>

add_tv_show(tv_show) ==
    /\ pc = "config"
    /\ Len(tv_shows) < MaxTotal
    /\ tv_shows' = Append(tv_shows, tv_show)
    /\ UNCHANGED <<pc, slice_start, slice_end, step, column_info, runArgs, key, last_command,
                   research_func, table, seen, envVars, last_moves, sys_path, backVars, exc, reported>>

(***************************************************************************)
(* run(): entry, lines 149-150.                                            *)
(***************************************************************************)
RunStart(force, n) ==
    /\ pc = "config"
    /\ column_info # << >>
    /\ runs < MaxRuns
    /\ runs' = runs + 1
    /\ seen' = << >>
    /\ force_int_input' = force
    /\ max_int_input' = n
    /\ total_items' = Len(tv_shows)
    /\ key' = KEmpty
    /\ last_command' = KEmpty
    /\ last_moves' = <<"none", "none">>
    /\ pc' = "display"
    /\ UNCHANGED <<cfgVars, research_func, table, envVars, sys_path, backVars,
                   exc, reported>>

(***************************************************************************)
(* run(): top of the loop, lines 153-163: render the slice and look for    *)
(* the research function.                                                  *)
(***************************************************************************)
Display ==
    /\ pc = "display"
    /\ table' = DisplayData(column_info, Slice(tv_shows, slice_start, slice_end))
    /\ seen' = seen \o SlicePositions(tv_shows, slice_start, slice_end)
    /\ research_func' = ResearchFunc(call_stack)
    /\ pc' = "prompt"
    /\ UNCHANGED <<cfgVars, runArgs, key, last_command, envVars, last_moves, sys_path, backVars,
                   exc, reported>>

(***************************************************************************)
(* The page arithmetic of run().                                           *)
(***************************************************************************)
NextStart_Stay(start, stp) == start

NextStart_Overlap(start, stp) == start + stp - 1

\* line 186: self.slice_start += self.step
NextStart(start, stp) == start + stp

NextEnd_NoClamp(end, stp, total) == end + stp

\* lines 187-189: self.slice_end += self.step, clamped to total_items
NextEnd(end, stp, total) == IF end + stp > total THEN total ELSE end + stp

FirstBounds_FromOne(stp) == <<1, stp>>

FirstBounds_Default(stp) == <<0, DefaultSliceEnd>>

FirstBounds_Empty(stp) == <<0, 0>>

\* lines 217-218: self.slice_start = 0; self.slice_end = self.step
FirstBounds(stp) == <<0, stp>>

SearchTerm_Empty == ""

\* line 124: the argument of search_func(None)
SearchTerm == "None"

(***************************************************************************)
(* run_back_command(research_func) is called: its locals are fresh.        *)
(***************************************************************************)
EnterBack ==
    /\ site_name' = ""
    /\ current_path' = << >>
    /\ project_root' = NoRoot
    /\ search_func' = FALSE
    /\ exc' = "none"
    /\ reported' = "none"
    /\ search_calls' = << >>
    /\ at_back' = <<slice_start, slice_end, step>>
    /\ path_at_back' = sys_path
    /\ seen' = << >>
    /\ pc' = "back_site"

(***************************************************************************)
(* run(): the branch "more pages remain", lines 166-195.  Prompt.ask       *)
(* returns key, last_command = key, then the if/elif chain.                *)
(***************************************************************************)
MoreQuit_Lowered(answer) ==
    /\ pc = "prompt"
    /\ slice_end < total_items
    /\ answer \in PromptAsk(force_int_input, max_int_input)
    /\ Lower(answer) = Kq
    /\ key' = answer
    /\ last_command' = Lower(answer)
    /\ pc' = "done"
    /\ UNCHANGED <<cfgVars, runArgs, research_func, table, seen, envVars, last_moves, sys_path,
                   backVars, exc, reported>>

MoreQuit(answer) ==
    /\ pc = "prompt"
    /\ slice_end < total_items
    /\ answer \in PromptAsk(force_int_input, max_int_input)
    /\ Lower(answer) = Kq
    /\ key' = answer
    /\ last_command' = answer
    /\ pc' = "done"
    /\ UNCHANGED <<cfgVars, runArgs, research_func, table, seen, envVars, last_moves, sys_path,
                   backVars, exc, reported>>

NextPage(answer) ==
    /\ pc = "prompt"
    /\ slice_end < total_items
    /\ answer \in PromptAsk(force_int_input, max_int_input)
    /\ Lower(answer) # Kq
    /\ answer = KEmpty
    /\ key' = answer
    /\ last_command' = answer
    /\ slice_start' = NextStart(slice_start, step)
    /\ slice_end' = NextEnd(slice_end, step, total_items)
    /\ last_moves' = <<last_moves[2], "advance">>
    /\ pc' = "display"
    /\ UNCHANGED <<tv_shows, step, column_info, runArgs, research_func, table, seen,
                   envVars, sys_path, backVars, exc, reported>>

MoreBack(answer) ==
    /\ pc = "prompt"
    /\ slice_end < total_items
    /\ answer \in PromptAsk(force_int_input, max_int_input)
    /\ Lower(answer) # Kq
    /\ answer # KEmpty
    /\ Lower(answer) = Kback /\ Truthy(research_func)
    /\ key' = answer
    /\ last_command' = answer
    /\ EnterBack
    /\ UNCHANGED <<cfgVars, runArgs, research_func, table, envVars, last_moves, sys_path>>

MoreSelect(answer) ==
    /\ pc = "prompt"
    /\ slice_end < total_items
    /\ answer \in PromptAsk(force_int_input, max_int_input)
    /\ Lower(answer) # Kq
    /\ answer # KEmpty
    /\ ~(Lower(answer) = Kback /\ Truthy(research_func))
    /\ key' = answer
    /\ last_command' = answer
    /\ pc' = "done"
    /\ UNCHANGED <<cfgVars, runArgs, research_func, table, seen, envVars, last_moves, sys_path,
                   backVars, exc, reported>>

(***************************************************************************)
(* run(): the branch "last slice", lines 197-224.                          *)
(***************************************************************************)
LastQuit(answer) ==
    /\ pc = "prompt"
    /\ ~(slice_end < total_items)
    /\ answer \in PromptAsk(force_int_input, max_int_input)
    /\ Lower(answer) = Kq
    /\ key' = answer
    /\ last_command' = answer
    /\ pc' = "done"
    /\ UNCHANGED <<cfgVars, runArgs, research_func, table, seen, envVars, last_moves, sys_path,
                   backVars, exc, reported>>

FirstPage_Returns(answer) ==
    /\ pc = "prompt"
    /\ ~(slice_end < total_items)
    /\ answer \in PromptAsk(force_int_input, max_int_input)
    /\ Lower(answer) # Kq
    /\ answer = KEmpty
    /\ key' = answer
    /\ last_command' = answer
    /\ pc' = "done"
    /\ UNCHANGED <<cfgVars, runArgs, research_func, table, seen, envVars, last_moves, sys_path,
                   backVars, exc, reported>>

FirstPage(answer) ==
    /\ pc = "prompt"
    /\ ~(slice_end < total_items)
    /\ answer \in PromptAsk(force_int_input, max_int_input)
    /\ Lower(answer) # Kq
    /\ answer = KEmpty
    /\ key' = answer
    /\ last_command' = answer
    /\ slice_start' = FirstBounds(step)[1]
    /\ slice_end' = FirstBounds(step)[2]
    /\ last_moves' = <<last_moves[2], IF slice_end = total_items THEN "wrap" ELSE "rewind">>
    /\ seen' = << >>
    /\ pc' = "display"
    /\ UNCHANGED <<tv_shows, step, column_info, runArgs, research_func, table,
                   envVars, sys_path, backVars, exc, reported>>

LastBack(answer) ==
    /\ pc = "prompt"
    /\ ~(slice_end < total_items)
    /\ answer \in PromptAsk(force_int_input, max_int_input)
    /\ Lower(answer) # Kq
    /\ answer # KEmpty
    /\ Lower(answer) = Kback /\ Truthy(research_func)
    /\ key' = answer
    /\ last_command' = answer
    /\ EnterBack
    /\ UNCHANGED <<cfgVars, runArgs, research_func, table, envVars, last_moves, sys_path>>

LastSelect(answer) ==
    /\ pc = "prompt"
    /\ ~(slice_end < total_items)
    /\ answer \in PromptAsk(force_int_input, max_int_input)
    /\ Lower(answer) # Kq
    /\ answer # KEmpty
    /\ ~(Lower(answer) = Kback /\ Truthy(research_func))
    /\ key' = answer
    /\ last_command' = answer
    /\ pc' = "done"
    /\ UNCHANGED <<cfgVars, runArgs, research_func, table, seen, envVars, last_moves, sys_path,
                   backVars, exc, reported>>

(***************************************************************************)
(* run_back_command, lines 96-135.                                         *)
(***************************************************************************)
\* lines 99-102: research_func['folder'] raises KeyError when the frame has no folder
BackSiteName ==
    /\ pc = "back_site"
    /\ IF research_func[1].has_folder
       THEN /\ site_name' = Basename(research_func[1].folder)
            /\ current_path' = research_func[1].folder
            /\ pc' = "back_root"
            /\ exc' = exc
       ELSE /\ exc' = "KeyError"
            /\ pc' = "back_except"
            /\ UNCHANGED <<site_name, current_path>>
    /\ UNCHANGED <<cfgVars, runArgs, key, last_command, research_func, table, seen, envVars, last_moves,
                   sys_path, project_root, search_func, reported, search_calls, at_back, path_at_back>>

\* lines 103-104: one iteration of the while loop
BackWalkUp ==
    /\ pc = "back_root"
    /\ ~HasMarker(current_path)
    /\ current_path' = Dirname(current_path)
    /\ UNCHANGED <<pc, cfgVars, runArgs, key, last_command, research_func, table, seen, envVars, last_moves,
                   sys_path, site_name, project_root, search_func, exc, reported, search_calls,
                   at_back, path_at_back>>

\* lines 103, 107-111: the loop ends, the root goes to the front of sys.path
BackRootFound ==
    /\ pc = "back_root"
    /\ HasMarker(current_path)
    /\ project_root' = [bound |-> TRUE, path |-> current_path]
    /\ sys_path' = IF ~InPath(sys_path, current_path)
                   THEN PathInsert(sys_path, current_path) ELSE sys_path
    /\ pc' = "back_import"
    /\ UNCHANGED <<cfgVars, runArgs, key, last_command, research_func, table, seen, envVars, last_moves,
                   site_name, current_path, search_func, exc, reported, search_calls,
                   at_back, path_at_back>>

\* lines 114-118: importlib.import_module may raise
BackImport(ok) ==
    /\ pc = "back_import"
    /\ IF ok THEN pc' = "back_getattr" /\ exc' = exc
             ELSE pc' = "back_except" /\ exc' = "ImportError"
    /\ UNCHANGED <<cfgVars, runArgs, key, last_command, research_func, table, seen, envVars, last_moves,
                   sys_path, backVars, reported>>

\* line 121: getattr(module, 'search') may raise
BackGetattr(ok) ==
    /\ pc = "back_getattr"
    /\ IF ok THEN pc' = "back_call" /\ exc' = exc /\ search_func' = TRUE
             ELSE pc' = "back_except" /\ exc' = "AttributeError" /\ search_func' = search_func
    /\ UNCHANGED <<cfgVars, runArgs, key, last_command, research_func, table, seen, envVars,
                   last_moves, sys_path, site_name, current_path, project_root,
                   search_calls, at_back, path_at_back, reported>>

\* what the search flow may do to the manager's record set
SearchEffect(shows, eff) ==
    CASE eff = "none" -> shows
      [] eff = "clear" -> << >>
      [] eff = "append" -> IF Len(shows) < MaxTotal
                           THEN Append(shows, Show(Len(shows) + 1)) ELSE shows

\* line 124: search_func(None); it returns or raises an Exception
BackCall(eff, raises) ==
    /\ pc = "back_call"
    /\ search_calls' = Append(search_calls, SearchTerm)
    /\ tv_shows' = SearchEffect(tv_shows, eff)
    /\ IF raises THEN pc' = "back_except" /\ exc' = "SearchError"
                 ELSE pc' = "back_cleanup" /\ exc' = exc
    /\ UNCHANGED <<slice_start, slice_end, step, column_info, runArgs, key, last_command,
                   research_func, table, seen, envVars, last_moves, sys_path, site_name, current_path,
                   project_root, search_func, reported, at_back, path_at_back>>

\* lines 126-131: the except clause prints the error and the traceback
BackExcept ==
    /\ pc = "back_except"
    /\ reported' = exc
    /\ exc' = "none"
    /\ pc' = "back_cleanup"
    /\ UNCHANGED <<cfgVars, runArgs, key, last_command, research_func, table, seen, envVars, last_moves,
                   sys_path, backVars>>

\* lines 134-135, after the try statement: reading project_root raises
\* UnboundLocalError when line 107 was not reached; nothing catches it, here or
\* in run()
BackCleanup ==
    /\ pc = "back_cleanup"
    /\ IF project_root.bound
       THEN /\ sys_path' = IF InPath(sys_path, project_root.path)
                           THEN PathRemove(sys_path, project_root.path) ELSE sys_path
            /\ pc' = "display"
            /\ exc' = exc
       ELSE /\ exc' = "UnboundLocalError"
            /\ pc' = "raised"
            /\ sys_path' = sys_path
    /\ UNCHANGED <<cfgVars, runArgs, key, last_command, research_func, table, seen, envVars, last_moves,
                   backVars, reported>>

Next ==
    \/ \E n \in 1..MaxStep : set_slice_end(n)
    \/ \E schema \in Schemas : add_column(schema)
    \/ add_tv_show(Show(Len(tv_shows) + 1))
    \/ \E force \in BOOLEAN, n \in 0..MaxInt : RunStart(force, n)
    \/ Display
    \/ \E answer \in FreeKeys \cup Choices(MaxInt) : MoreQuit(answer)
    \/ \E answer \in FreeKeys \cup Choices(MaxInt) : NextPage(answer)
    \/ \E answer \in FreeKeys \cup Choices(MaxInt) : MoreBack(answer)
    \/ \E answer \in FreeKeys \cup Choices(MaxInt) : MoreSelect(answer)
    \/ \E answer \in FreeKeys \cup Choices(MaxInt) : LastQuit(answer)
    \/ \E answer \in FreeKeys \cup Choices(MaxInt) : FirstPage(answer)
    \/ \E answer \in FreeKeys \cup Choices(MaxInt) : LastBack(answer)
    \/ \E answer \in FreeKeys \cup Choices(MaxInt) : LastSelect(answer)
    \/ BackSiteName
    \/ BackWalkUp
    \/ BackRootFound
    \/ \E ok \in BOOLEAN : BackImport(ok)
    \/ \E ok \in BOOLEAN : BackGetattr(ok)
    \/ \E eff \in {"none", "clear", "append"}, raises \in BOOLEAN : BackCall(eff, raises)
    \/ BackExcept
    \/ BackCleanup

Spec == Init /\ [][Next]_vars

(***************************************************************************)
(* Vocabulary of the properties.                                           *)
(***************************************************************************)
Min(a, b) == IF a < b THEN a ELSE b
Max(a, b) == IF a > b THEN a ELSE b

BackPcs == {"back_site", "back_root", "back_import", "back_getattr", "back_call",
            "back_except", "back_cleanup"}

\* a step in which run() handles one answer of the prompt; key' is the answer
Asked == pc = "prompt" /\ pc' # "prompt"

\* the answer is none of the control tokens
NonControl(k) == k # KEmpty /\ Lower(k) # Kq /\ Lower(k) # Kback

BoundsUnchanged == slice_start' = slice_start /\ slice_end' = slice_end /\ step' = step

(***************************************************************************)
(* C1.  When the answer is "back" in any case and no research function was *)
(* found on the call stack, the loop continues with slice_start, slice_end *)
(* and step unchanged: run() does not terminate and does not return the    *)
(* answer.  The code falls through to the final else and breaks.           *)
(***************************************************************************)
C1_BackWithoutCallbackContinues ==
    [][(Asked /\ Lower(key') = Kback /\ ~Truthy(research_func))
         => (pc' = "display" /\ BoundsUnchanged)]_vars

(***************************************************************************)
(* C2.  As claimed: in every state of run(), slice_end never exceeds       *)
(* total_items.                                                            *)
(***************************************************************************)
C2_EndNeverExceedsTotal ==
    pc # "config" => slice_end <= total_items

(***************************************************************************)
(* C2, amended.  In every state of run(), slice_end never exceeds the      *)
(* larger of total_items and step; it exceeds total_items only on the page *)
(* (0, step) with step > total_items, the initial state and the state      *)
(* after a wrap, so after every advance slice_end <= total_items.          *)
(***************************************************************************)
C2_EndBounded ==
    pc # "config" =>
        /\ slice_end <= Max(total_items, step)
        /\ slice_end > total_items => (slice_start = 0 /\ slice_end = step)

\* an advance that was clamped to total_items
C2_Witness ==
    /\ pc = "display"
    /\ last_moves[2] = "advance"
    /\ slice_end = total_items
    /\ slice_end < slice_start + step

(***************************************************************************)
(* C3.  As claimed: once slice_end = total_items an empty answer resets    *)
(* the bounds to (0, step), and a second empty answer from there reaches   *)
(* (step, min(2*step, total_items)).                                       *)
(***************************************************************************)
C3_WrapThenSecondPageAlways ==
    [][/\ (Asked /\ key' = KEmpty /\ slice_end = total_items)
            => (slice_start' = 0 /\ slice_end' = step)
       /\ (Asked /\ key' = KEmpty /\ last_moves[2] = "wrap")
            => (slice_start' = step /\ slice_end' = Min(2 * step, total_items))]_vars

(***************************************************************************)
(* C3, amended.  Once slice_end = total_items an empty answer resets the   *)
(* bounds to (0, step); a second empty answer from there reaches           *)
(* (step, min(2*step, total_items)) when step < total_items, and (0, step) *)
(* again when step >= total_items, where the first page is the last one.   *)
(***************************************************************************)
C3_WrapThenSecondPage ==
    [][/\ (Asked /\ key' = KEmpty /\ slice_end = total_items)
            => (slice_start' = 0 /\ slice_end' = step)
       /\ (Asked /\ key' = KEmpty /\ last_moves[2] = "wrap")
            => IF step < total_items
               THEN slice_start' = step /\ slice_end' = Min(2 * step, total_items)
               ELSE slice_start' = 0 /\ slice_end' = step]_vars

\* the second empty answer after a wrap from slice_end = total_items
C3_Witness ==
    /\ pc = "display"
    /\ last_moves = <<"wrap", "advance">>
    /\ slice_start = step

(***************************************************************************)
(* C4.  When more pages remain (slice_end < total_items) and the answer is *)
(* empty, slice_start grows by step, slice_end becomes                     *)
(* min(slice_end + step, total_items), and the loop continues.             *)
(***************************************************************************)
C4_EmptyAdvances ==
    [][(Asked /\ key' = KEmpty /\ slice_end < total_items)
         => /\ slice_start' = slice_start + step
            /\ slice_end' = Min(slice_end + step, total_items)
            /\ step' = step
            /\ pc' = "display"]_vars

\* an advance to a full page that is not the last one
C4_Witness ==
    /\ pc = "display"
    /\ last_moves[2] = "advance"
    /\ slice_start > 0
    /\ slice_end = slice_start + step
    /\ slice_end < total_items

(***************************************************************************)
(* C5.  When no pages remain (slice_end >= total_items) and the answer is  *)
(* empty, the bounds become exactly (0, step) and the loop continues; any  *)
(* other answer has the effect it has when more pages remain: it depends   *)
(* on the answer and the research function only, and leaves the bounds     *)
(* alone.                                                                  *)
(***************************************************************************)
C5_LastPageWrapsOthersSame ==
    [][/\ (Asked /\ key' = KEmpty /\ slice_end >= total_items)
            => (slice_start' = 0 /\ slice_end' = step /\ step' = step /\ pc' = "display")
       /\ (Asked /\ key' # KEmpty)
            => /\ BoundsUnchanged
               /\ last_command' = key'
               /\ pc' = IF Lower(key') = Kq THEN "done"
                        ELSE IF Lower(key') = Kback /\ Truthy(research_func)
                             THEN "back_site"
                             ELSE "done"]_vars

\* a wrap from a first page that is wider than the record set
C5_Witness ==
    /\ pc = "display"
    /\ last_moves[2] = "rewind"
    /\ step # DefaultSliceEnd
    /\ slice_start = 0

(***************************************************************************)
(* C6.  Every state in which run() renders a slice has                     *)
(* 0 <= slice_start < slice_end.                                           *)
(***************************************************************************)
C6_RenderedBoundsOrdered ==
    pc = "display" => (0 <= slice_start /\ slice_start < slice_end)

\* the render after a wrap that followed a clamped last page
C6_Witness ==
    /\ pc = "display"
    /\ last_moves = <<"advance", "wrap">>
    /\ table # << >>

(***************************************************************************)
(* C7.  An answer "q" or "Q" terminates run() in the same iteration,       *)
(* whether or not more pages remain, leaves the bounds unchanged, and the  *)
(* value returned is the answer exactly as typed.                          *)
(***************************************************************************)
C7_QuitReturnsAnswer ==
    [][(Asked /\ Lower(key') = Kq)
         => (pc' = "done" /\ last_command' = key' /\ BoundsUnchanged)]_vars

\* "Q" typed on a page that is not the last one
C7_Witness ==
    /\ pc = "done"
    /\ last_command = <<"Q">>
    /\ slice_end < total_items

(***************************************************************************)
(* C8.  An answer that is not empty, not "q" and not "back" in any case    *)
(* terminates run() in the same iteration and is returned verbatim, with   *)
(* the bounds unchanged; conversely run() terminates only on "q"/"Q" or on *)
(* such an answer.  The converse fails on "back" without a research        *)
(* function (C1).                                                          *)
(***************************************************************************)
C8_OnlyQuitOrSelectionTerminates ==
    [][/\ (Asked /\ NonControl(key'))
            => (pc' = "done" /\ last_command' = key' /\ BoundsUnchanged)
       /\ (pc # "done" /\ pc' = "done")
            => (Lower(key') = Kq \/ NonControl(key'))]_vars

C10_BackFailuresAreCaught ==
    [][/\ exc' # "none" => pc' = "back_except"
       /\ pc = "back_except" => (reported' = exc /\ pc' = "back_cleanup")
       /\ pc = "back_cleanup" => pc' = "display"]_vars

(***************************************************************************)
(* C11.  When run_back_command returns, sys.path is what it was when the   *)
(* call began, whether the search callback succeeded or raised, for every  *)
(* initial sys.path.  The code removes the project root even when it did   *)
(* not insert it.                                                          *)
(***************************************************************************)
C11_SysPathRestored ==
    [][(pc = "back_cleanup" /\ pc' = "display") => sys_path' = path_at_back]_vars

(***************************************************************************)
(* C12.  Page advance and wrap are handled inside the loop: whenever run() *)
(* has terminated, the value it returns is not the empty string.           *)
(***************************************************************************)
C12_NeverReturnsEmpty ==
    pc = "done" => last_command # KEmpty

\* run() returned after an advance and a wrap were handled inside the loop
C12_Witness ==
    /\ pc = "done"
    /\ last_moves = <<"advance", "wrap">>

(***************************************************************************)
(* C13.  In strict numeric mode with upper bound n, the answers that reach *)
(* the transition logic are exactly "0", ..., str(n-1), "q", "" and        *)
(* "back", on the more-pages branch and on the last-page branch alike, and *)
(* every value run() returns in this mode is one of them.                  *)
(***************************************************************************)
IsStrictAnswer(k, n) ==
    \/ k = <<"q">>
    \/ k = << >>
    \/ k = <<"b", "a", "c", "k">>
    \/ \E i \in 0..(n - 1) : k = Str(i)

\* run() handles the answer k in the current state
Handles(k) ==
    \/ MoreQuit(k) \/ NextPage(k) \/ MoreBack(k) \/ MoreSelect(k)
    \/ LastQuit(k) \/ FirstPage(k) \/ LastBack(k) \/ LastSelect(k)

clear_ResetsBounds ==
    /\ pc = "config"
    /\ tv_shows' = << >>
    /\ slice_start' = 0
    /\ slice_end' = step
    /\ UNCHANGED <<pc, step, column_info, runArgs, key, last_command, research_func,
                   table, seen, envVars, last_moves, sys_path, backVars, exc, reported>>

\* lines 228-229
clear ==
    /\ pc = "config"
    /\ tv_shows' = << >>
    /\ UNCHANGED <<pc, slice_start, slice_end, step, column_info, runArgs, key,
                   last_command, research_func, table, seen, envVars, last_moves, sys_path,
                   backVars, exc, reported>>

\* line 226: return last_command; the locals of run() cease to exist
RunReturn ==
    /\ pc = "done"
    /\ pc' = "config"
    /\ force_int_input' = FALSE
    /\ max_int_input' = 0
    /\ total_items' = 0
    /\ key' = KEmpty
    /\ last_command' = KEmpty
    /\ research_func' = << >>
    /\ last_moves' = <<"none", "none">>
    /\ seen' = << >>
    /\ UNCHANGED <<cfgVars, runs, table, envVars, sys_path, backVars, exc, reported>>

ReuseInit ==
    /\ Init
    /\ call_stack = <<Frame("main", "run.py", TRUE, ProjectDir)>>
    /\ fs_markers = {}
    /\ sys_path = <<<<"usr", "lib">>>>

ReuseNext ==
    \/ \E n \in 1..MaxStep : set_slice_end(n)
    \/ \E schema \in Schemas : add_column(schema)
    \/ add_tv_show(Show(Len(tv_shows) + 1))
    \/ clear
    \/ \E force \in BOOLEAN, n \in 0..MaxInt : RunStart(force, n)
    \/ Display
    \/ \E answer \in FreeKeys \cup Choices(MaxInt) : MoreQuit(answer)
    \/ \E answer \in FreeKeys \cup Choices(MaxInt) : NextPage(answer)
    \/ \E answer \in FreeKeys \cup Choices(MaxInt) : MoreSelect(answer)
    \/ \E answer \in FreeKeys \cup Choices(MaxInt) : LastQuit(answer)
    \/ \E answer \in FreeKeys \cup Choices(MaxInt) : FirstPage(answer)
    \/ \E answer \in FreeKeys \cup Choices(MaxInt) : LastSelect(answer)
    \/ RunReturn

SpecReuse == ReuseInit /\ [][ReuseNext]_vars

(***************************************************************************)
(* C15.  clear() leaves the record set empty and leaves slice_start,       *)
(* slice_end, step and the column schema as they were.                     *)
(***************************************************************************)
C15_ClearKeepsBounds ==
    [][(pc = "config" /\ pc' = "config" /\ Len(tv_shows') < Len(tv_shows))
         => /\ tv_shows' = << >>
            /\ BoundsUnchanged
            /\ column_info' = column_info]_vars

\* cleared after a run that had left the first page
C15_Witness ==
    /\ pc = "config"
    /\ runs = 1
    /\ tv_shows = << >>
    /\ slice_start > 0
    /\ column_info # << >>

(***************************************************************************)
(* C18.  After any sequence of public operations on one manager, whenever  *)
(* run() prompts with more pages remaining (slice_end < total_items) the   *)
(* window shown is a full page, slice_end - slice_start = step.  Neither   *)
(* clear() nor run() resets the bounds a previous run left behind.         *)
(***************************************************************************)
C18_FullPageWhenMoreRemain ==
    (pc = "prompt" /\ slice_end < total_items) => slice_end - slice_start = step

(***************************************************************************)
(* The renderer on its own: Display applied to any schema, any short       *)
(* record set and any slice bounds.                                        *)
(***************************************************************************)
RenderRecords ==
    { [Index |-> <<"1">>],
      [Index |-> <<"2">>, Name |-> <<"n">>],
      [Name |-> <<"m">>, Year |-> <<"y">>],
      [Year |-> <<"z">>] }

RenderSchemas ==
    { <<<<"Index", "red">>, <<"Name", "">>>>,
      <<<<"Name", "cyan">>, <<"Type", "">>, <<"Index", "">>>>,
      <<<<"Year", "">>>> }

RECURSIVE SeqsUpTo(_, _)
SeqsUpTo(S, n) ==
    IF n = 0 THEN { << >> }
    ELSE LET shorter == SeqsUpTo(S, n - 1)
         IN  shorter \cup { Append(q, x) : q \in shorter, x \in S }

RenderInit ==
    /\ pc = "display"
    /\ tv_shows \in SeqsUpTo(RenderRecords, MaxRows)
    /\ slice_start \in 0..MaxRows
    /\ slice_end \in 0..(MaxRows + 1)
    /\ step = DefaultSliceEnd
    /\ column_info \in RenderSchemas
    /\ force_int_input = FALSE
    /\ max_int_input = 0
    /\ total_items = Len(tv_shows)
    /\ key = KEmpty
    /\ last_command = KEmpty
    /\ research_func = << >>
    /\ table = << >>
    /\ call_stack = <<Frame("main", "run.py", TRUE, ProjectDir)>>
    /\ fs_markers = {}
    /\ sys_path = <<<<"usr", "lib">>>>
    /\ site_name = ""
    /\ current_path = << >>
    /\ project_root = NoRoot
    /\ search_func = FALSE
    /\ exc = "none"
    /\ reported = "none"
    /\ search_calls = << >>
    /\ at_back = <<0, 0, 0>>
    /\ last_moves = <<"none", "none">>
    /\ path_at_back = << >>
    /\ seen = << >>
    /\ runs = 1

SpecRender == RenderInit /\ [][Display]_vars

(***************************************************************************)
(* C16.  The renderer produces one row per record of the slice, in slice   *)
(* order; each row has one cell per schema column, in schema order, that   *)
(* holds the record's value for the column, or the empty string when the   *)
(* record lacks the key; keys of the record outside the schema are         *)
(* ignored.                                                                *)
(***************************************************************************)
C16_RowsFollowSchema ==
    pc = "prompt" =>
        LET hi == Min(slice_end, Len(tv_shows))
            n == IF hi > slice_start THEN hi - slice_start ELSE 0
        IN  /\ Len(table) = n
            /\ \A r \in 1..n :
                 LET entry == tv_shows[slice_start + r]
                 IN  /\ Len(table[r]) = Len(column_info)
                     /\ \A c \in 1..Len(column_info) :
                          LET col == column_info[c][1]
                          IN  IF col \in DOMAIN entry
                              THEN table[r][c] = entry[col]
                              ELSE table[r][c] = << >>

\* two rows rendered, one with a missing key, one with a key outside the schema
C16_Witness ==
    /\ pc = "prompt"
    /\ Len(table) = 2
    /\ \E c \in 1..Len(column_info) : table[1][c] = << >>
    /\ \E c \in 1..Len(column_info) : table[2][c] # << >>
    /\ \E k \in DOMAIN tv_shows[slice_start + 2] :
         \A c \in 1..Len(column_info) : column_info[c][1] # k

(***************************************************************************)
(* C17.  On a freshly configured manager with step > 0 and at least one    *)
(* record, while every answer is empty: each render shows at least one and *)
(* at most step records; the records shown since the start of the run or   *)
(* the last wrap are records 1, 2, 3, ... in order, each page starting     *)
(* where the previous one ended; a wrap happens only when all total_items  *)
(* records have been shown; and the bounds follow (0, p), (p, 2p), ...,    *)
(* (k*p, total_items), then (0, p) again.                                  *)
(***************************************************************************)
C17_EmptyInputsPageThroughAll ==
    [][(at_back = <<0, 0, 0>> /\ total_items > 0) =>
         /\ (pc = "display" /\ pc' = "prompt")
              => /\ Len(table') >= 1
                 /\ Len(table') <= step
                 /\ Len(seen') = Len(seen) + Len(table')
                 /\ seen' = [i \in 1..Len(seen') |-> i]
                 /\ slice_start = Len(seen)
                 /\ slice_start % step = 0
                 /\ slice_end = IF slice_start = 0 THEN step
                                ELSE Min(slice_start + step, total_items)
         /\ (Asked /\ key' = KEmpty /\ slice_end < total_items)
              => /\ Len(seen) < total_items
                 /\ slice_start' = Len(seen)
                 /\ pc' = "display"
         /\ (Asked /\ key' = KEmpty /\ slice_end >= total_items)
              => /\ seen = [i \in 1..total_items |-> i]
                 /\ slice_start' = 0
                 /\ slice_end' = step
                 /\ pc' = "display"]_vars

\* a clamped last page that completes a record set of more than two pages
C17_Witness ==
    /\ pc = "prompt"
    /\ at_back = <<0, 0, 0>>
    /\ total_items > 2 * step
    /\ Len(seen) = total_items
    /\ slice_end - slice_start < step

(***************************************************************************)
(* Progress.  run() is one synchronous thread: a step of the program that  *)
(* is enabled is eventually taken; only the prompt waits, for the user.    *)
(* The project lives in /proj; run() is reached from a search entry point  *)
(* of a site of the project, or from one in a package outside of it.       *)
(***************************************************************************)
ProgramStep ==
    \/ Display
    \/ BackSiteName
    \/ BackWalkUp
    \/ BackRootFound
    \/ \E ok \in BOOLEAN : BackImport(ok)
    \/ \E ok \in BOOLEAN : BackGetattr(ok)
    \/ \E eff \in {"none", "clear", "append"}, raises \in BOOLEAN : BackCall(eff, raises)
    \/ BackExcept
    \/ BackCleanup

LiveInit ==
    /\ Init
    /\ call_stack \in { <<Frame("search", "__init__.py", TRUE, SiteDir),
                           Frame("main", "run.py", TRUE, ProjectDir)>>,
                         <<Frame("search", "site.py", TRUE, SiteDir),
                           Frame("search", "__init__.py", TRUE, StrayDir)>> }
    /\ fs_markers = {ProjectDir}
    /\ sys_path = <<<<"usr", "lib">>>>

SpecLive == LiveInit /\ [][Next]_vars /\ WF_vars(ProgramStep)

(***************************************************************************)
(* C19.  run_back_command always returns control: the upward search for    *)
(* the project root terminates for every folder, also when no ancestor up  *)
(* to the filesystem root contains 'StreamingCommunity'.  At the root      *)
(* os.path.dirname returns the root again and the loop never ends.         *)
(***************************************************************************)
C19_RootSearchTerminates ==
    (pc = "back_root") ~> (pc # "back_root")

(***************************************************************************)
(* C20.  At every iteration of run() the total that decides whether more   *)
(* pages remain, and that clamps slice_end, is the current length of the   *)
(* record set, also after a search callback cleared or appended to it.     *)
(* The code reads len(self.tv_shows) once, before the loop.                *)
(***************************************************************************)
C20_TotalIsCurrentLength ==
    pc \in {"display", "prompt"} => total_items = Len(tv_shows)

====
